---- MODULE Spec2Model ----
(***************************************************************************)
(* CrossPilot workflow engine (src/workflow_engine.py, class               *)
(* WorkflowEngine): execute_workflow, execute_step, the seven step         *)
(* executors, replace_variables and the registry queries.                  *)
(*                                                                         *)
(* Python values whose type varies (a step list that may be None, a step   *)
(* or a config that may not be a mapping) are tagged records               *)
(* [t |-> "dict" | "list" | "str" | "int" | "none", v |-> ...].  A dict    *)
(* with fixed string keys is a TLA+ record holding the keys present; a dict *)
(* that is iterated (trigger data, variables) is the sequence of its       *)
(* <<key, value>> items in insertion order.  Text that goes through        *)
(* str.replace is a sequence of one-character strings.                     *)
(***************************************************************************)
EXTENDS Integers, Sequences, FiniteSets, TLC

\* Bounds of the model.
MaxRuns == 2    \* calls of execute_workflow on the one engine
MaxSteps == 2   \* longest step list of a generated workflow
MaxLimit == 3   \* largest limit passed to get_workflow_history

Runs == 1..MaxRuns

-----------------------------------------------------------------------------
(* Python values                                                           *)

PyNone == [t |-> "none"]
PyDict(d) == [t |-> "dict", v |-> d]
PyList(s) == [t |-> "list", v |-> s]
PyStr(s) == [t |-> "str", v |-> s]
PyInt(n) == [t |-> "int", v |-> n]

\* not x: the empty string, 0 and None are falsy
Falsy(x) ==
    \/ x.t = "none"
    \/ x.t = "str" /\ Len(x.v) = 0
    \/ x.t = "int" /\ x.v = 0

EmptyDict == [k \in {} |-> k]

\* dict.get(key, default) on a dict with string keys
Get(d, key, default) == IF key \in DOMAIN d THEN d[key] ELSE default

\* d[key] = value on a dict with string keys
Put(d, key, value) ==
    [k \in DOMAIN d \cup {key} |-> IF k = key THEN value ELSE d[k]]

\* outcome of evaluating Python code: a value, or a raised exception
Ok(v) == [raised |-> FALSE, value |-> v]
Raise(msg) == [raised |-> TRUE, exc |-> msg]

\* datetime.now().isoformat(): some non-empty text
IsoNow == <<"2", "0", "2", "4">>

\* mutant: every execution gets the same identifier
Uuid4_Same(n) == <<"E", "0">>

\* str(uuid.uuid4()) for the n-th identifier the process draws
DigitOf(n) == <<"0", "1", "2", "3", "4", "5", "6", "7", "8", "9">>[(n % 10) + 1]
Uuid4(n) == <<"E", DigitOf(n)>>

-----------------------------------------------------------------------------
(* replace_variables                                                       *)

\* str.replace(old, new): every non-overlapping occurrence, left to right
RECURSIVE StrReplace(_, _, _)
StrReplace(text, old, new) ==
    IF Len(old) = 0
    THEN IF Len(text) = 0 THEN new
         ELSE new \o <<Head(text)>> \o StrReplace(Tail(text), old, new)
    ELSE IF Len(text) < Len(old) THEN text
    ELSE IF SubSeq(text, 1, Len(old)) = old
         THEN new \o StrReplace(SubSeq(text, Len(old) + 1, Len(text)), old, new)
         ELSE <<Head(text)>> \o StrReplace(Tail(text), old, new)

\* the index of key among the items, 0 when absent
RECURSIVE ItemIndex(_, _, _)
ItemIndex(items, key, from) ==
    IF from > Len(items) THEN 0
    ELSE IF items[from][1] = key THEN from
    ELSE ItemIndex(items, key, from + 1)

\* {**a, **b} on insertion-ordered dicts: a key keeps its first position and
\* takes its last value
RECURSIVE DictMerge(_, _)
DictMerge(a, b) ==
    IF Len(b) = 0 THEN a
    ELSE LET k == Head(b)[1]
             p == ItemIndex(a, k, 1)
         IN  DictMerge(IF p = 0 THEN Append(a, Head(b))
                       ELSE [a EXCEPT ![p] = Head(b)],
                       Tail(b))

T_workflow_id == <<"{", "{", "w", "o", "r", "k", "f", "l", "o", "w", "_", "i", "d", "}", "}">>
T_execution_id == <<"{", "{", "e", "x", "e", "c", "u", "t", "i", "o", "n", "_", "i", "d", "}", "}">>
T_started_at == <<"{", "{", "s", "t", "a", "r", "t", "e", "d", "_", "a", "t", "}", "}">>

\* the replacements dict of replace_variables
Replacements(context) ==
    DictMerge(DictMerge(<< <<T_workflow_id, Get(context, "workflow_id", <<>>)>>,
                           <<T_execution_id, Get(context, "id", <<>>)>>,
                           <<T_started_at, Get(context, "started_at", <<>>)>> >>,
                        Get(context, "variables", <<>>)),
              Get(context, "trigger_data", <<>>))

RECURSIVE ReplaceAll(_, _)
ReplaceAll(text, items) ==
    IF Len(items) = 0 THEN text
    ELSE ReplaceAll(StrReplace(text, Head(items)[1], Head(items)[2]), Tail(items))

\* str(e) of the AttributeError that text.replace raises on an int
NoReplaceAttribute == "'int' object has no attribute 'replace'"

\* a falsy text is returned as it is; a text that is no str has no replace
replace_variables(text, context) ==
    IF Falsy(text) THEN Ok(text)
    ELSE IF text.t # "str" THEN Raise(NoReplaceAttribute)
    ELSE Ok(PyStr(ReplaceAll(text.v, Replacements(context))))

-----------------------------------------------------------------------------
(* Step executors                                                          *)

\* str(e) of the AttributeError that config.get raises when the config is a
\* string and not a mapping
NoGetAttribute == "'str' object has no attribute 'get'"

\* mutant: the recipient goes through substitution too
execute_email_step_ResolvesTo(config, context) ==
    IF config.t # "dict" THEN Raise(NoGetAttribute)
    ELSE LET to_email == replace_variables(Get(config.v, "to", PyStr(<<>>)), context)
             subject == Get(config.v, "subject", PyStr(<<>>))
             template == Get(config.v, "template", PyStr(<<>>))
             processed_template == replace_variables(template, context)
             processed_subject == replace_variables(subject, context)
         IN  IF processed_template.raised THEN processed_template
             ELSE IF processed_subject.raised THEN processed_subject
             ELSE IF to_email.raised THEN to_email
             ELSE Ok([success |-> TRUE,
                      result |-> [to |-> to_email.value,
                                  subject |-> processed_subject.value,
                                  body |-> processed_template.value,
                                  sent_at |-> IsoNow,
                                  message_id |-> "msg_<hex8>"],
                      executed_at |-> IsoNow])

execute_email_step(config, context) ==
    IF config.t # "dict" THEN Raise(NoGetAttribute)
    ELSE LET to_email == Get(config.v, "to", PyStr(<<>>))
             subject == Get(config.v, "subject", PyStr(<<>>))
             template == Get(config.v, "template", PyStr(<<>>))
             processed_template == replace_variables(template, context)
             processed_subject == replace_variables(subject, context)
         IN  IF processed_template.raised THEN processed_template
             ELSE IF processed_subject.raised THEN processed_subject
             ELSE Ok([success |-> TRUE,
                      result |-> [to |-> to_email,
                                  subject |-> processed_subject.value,
                                  body |-> processed_template.value,
                                  sent_at |-> IsoNow,
                                  message_id |-> "msg_<hex8>"],
                      executed_at |-> IsoNow])

execute_ticket_step(config, context) ==
    IF config.t # "dict" THEN Raise(NoGetAttribute)
    ELSE LET ticket == [id |-> "TKT<date><hex4>",
                        type |-> Get(config.v, "ticket_type", "General"),
                        priority |-> Get(config.v, "priority", "Medium"),
                        assigned_to |-> Get(config.v, "assign_to", ""),
                        created_by |-> "CrossPilot Workflow",
                        created_at |-> IsoNow,
                        status |-> "open",
                        workflow_execution_id |-> context["id"]]
         IN  Ok([success |-> TRUE, result |-> ticket, executed_at |-> IsoNow])

execute_task_step(config, context) ==
    IF config.t # "dict" THEN Raise(NoGetAttribute)
    ELSE LET task == [id |-> "TSK<hex8>",
                      assigned_to |-> Get(config.v, "assign_to", ""),
                      description |-> Get(config.v, "description", ""),
                      due_date |-> Get(config.v, "due_date", ""),
                      created_at |-> IsoNow,
                      status |-> "assigned",
                      workflow_execution_id |-> context["id"]]
         IN  Ok([success |-> TRUE, result |-> task, executed_at |-> IsoNow])

execute_api_step(config, context) ==
    IF config.t # "dict" THEN Raise(NoGetAttribute)
    ELSE LET api_result == [url |-> Get(config.v, "url", ""),
                            method |-> Get(config.v, "method", "GET"),
                            status_code |-> 200,
                            response |-> [success |-> TRUE,
                                          message |-> "API call simulated"],
                            called_at |-> IsoNow]
         IN  Ok([success |-> TRUE, result |-> api_result, executed_at |-> IsoNow])

execute_approval_step(config, context) ==
    IF config.t # "dict" THEN Raise(NoGetAttribute)
    ELSE LET approval == [id |-> "APP<hex8>",
                          approver |-> Get(config.v, "approver", ""),
                          type |-> Get(config.v, "type", "manual"),
                          status |-> "approved",
                          approved_at |-> IsoNow,
                          workflow_execution_id |-> context["id"]]
         IN  Ok([success |-> TRUE, result |-> approval, executed_at |-> IsoNow])

execute_wait_step(config, context) ==
    IF config.t # "dict" THEN Raise(NoGetAttribute)
    ELSE LET wait_result == [duration |-> Get(config.v, "duration", 0),
                             reason |-> Get(config.v, "reason", "Workflow delay"),
                             waited_at |-> IsoNow]
         IN  Ok([success |-> TRUE, result |-> wait_result, executed_at |-> IsoNow])

\* mutant: the condition evaluates to False
evaluate_condition_False(condition, context) == Ok(FALSE)

\* the condition is substituted and the outcome discarded: always True
evaluate_condition(condition, context) ==
    LET processed_condition == replace_variables(condition, context)
    IN  IF processed_condition.raised THEN processed_condition ELSE Ok(TRUE)

execute_condition_step(config, context) ==
    IF config.t # "dict" THEN Raise(NoGetAttribute)
    ELSE LET condition == Get(config.v, "condition", PyStr(<<>>))
             true_action == Get(config.v, "true_action", PyDict(EmptyDict))
             false_action == Get(config.v, "false_action", PyDict(EmptyDict))
             condition_result == evaluate_condition(condition, context)
         IN  IF condition_result.raised THEN condition_result
             ELSE Ok([success |-> TRUE,
                      result |-> [condition |-> condition,
                                  evaluation |-> condition_result.value,
                                  action_taken |-> IF condition_result.value
                                                   THEN true_action
                                                   ELSE false_action],
                      executed_at |-> IsoNow])

\* mutant: an unrecognized type is a silent no-op
Dispatch_SilentNoOp(step_type, step_config, context) ==
    IF step_type = "Send Email" THEN execute_email_step(step_config, context)
    ELSE IF step_type = "Create Ticket" THEN execute_ticket_step(step_config, context)
    ELSE IF step_type = "Assign Task" THEN execute_task_step(step_config, context)
    ELSE IF step_type = "API Call" THEN execute_api_step(step_config, context)
    ELSE IF step_type = "Approval" THEN execute_approval_step(step_config, context)
    ELSE IF step_type = "Wait" THEN execute_wait_step(step_config, context)
    ELSE IF step_type = "Condition" THEN execute_condition_step(step_config, context)
    ELSE Ok([success |-> TRUE, result |-> EmptyDict, executed_at |-> IsoNow])

\* the if/elif chain of execute_step
Dispatch(step_type, step_config, context) ==
    IF step_type = "Send Email" THEN execute_email_step(step_config, context)
    ELSE IF step_type = "Create Ticket" THEN execute_ticket_step(step_config, context)
    ELSE IF step_type = "Assign Task" THEN execute_task_step(step_config, context)
    ELSE IF step_type = "API Call" THEN execute_api_step(step_config, context)
    ELSE IF step_type = "Approval" THEN execute_approval_step(step_config, context)
    ELSE IF step_type = "Wait" THEN execute_wait_step(step_config, context)
    ELSE IF step_type = "Condition" THEN execute_condition_step(step_config, context)
    ELSE Ok([success |-> FALSE,
             error |-> "Unknown step type: " \o step_type,
             executed_at |-> IsoNow])

\* what the except clause of execute_step returns for an exception e
StepFailure(e) ==
    [success |-> FALSE,
     error |-> "Step execution failed: " \o e,
     executed_at |-> IsoNow]

\* mutant: step.get is inside the try, a step that is no mapping gives a
\* failed result
execute_step_CatchAll(step, context) ==
    IF step.t # "dict" THEN Ok(StepFailure(NoGetAttribute))
    ELSE LET step_type == Get(step.v, "type", "unknown")
             step_config == Get(step.v, "config", PyDict(EmptyDict))
             handled == Dispatch(step_type, step_config, context)
         IN  IF handled.raised THEN Ok(StepFailure(handled.exc)) ELSE handled

\* mutant: no try around the dispatch, a handler's exception propagates
execute_step_NoTry(step, context) ==
    IF step.t # "dict" THEN Raise(NoGetAttribute)
    ELSE Dispatch(Get(step.v, "type", "unknown"),
                  Get(step.v, "config", PyDict(EmptyDict)), context)

\* step.get is called before the try: a step that is no mapping raises out of
\* execute_step; whatever a handler raises is turned into a failed result
execute_step(step, context) ==
    IF step.t # "dict" THEN Raise(NoGetAttribute)
    ELSE LET step_type == Get(step.v, "type", "unknown")
             step_config == Get(step.v, "config", PyDict(EmptyDict))
             handled == Dispatch(step_type, step_config, context)
         IN  IF handled.raised THEN Ok(StepFailure(handled.exc)) ELSE handled

-----------------------------------------------------------------------------
(* Inputs: workflows, steps and trigger data                               *)

T_name == <<"n", "a", "m", "e">>
T_Sam == <<"S", "a", "m">>
T_HiName == <<"H", "i", " ", "{", "{", "n", "a", "m", "e", "}", "}">>
T_HelloName == <<"H", "e", "l", "l", "o", " ", "{", "{", "n", "a", "m", "e", "}", "}">>
T_a_at_b == <<"a", "@", "b", ".", "c", "o", "m">>
T_WF001 == <<"W", "F", "0", "0", "1">>
T_Onboarding == <<"O", "n", "b", "o", "a", "r", "d", "i", "n", "g">>

\* the Send Email step of the specification's scenario
EmailStep ==
    PyDict([id |-> "step1", name |-> "Send Welcome Email", type |-> "Send Email",
            config |-> PyDict([to |-> PyStr(T_a_at_b), subject |-> PyStr(T_HiName),
                               template |-> PyStr(T_HelloName)])])

\* the Create Ticket step of the sample workflow WF001
TicketStep ==
    PyDict([id |-> "step2", name |-> "Create IT Ticket", type |-> "Create Ticket",
            config |-> PyDict([ticket_type |-> "IT Support", priority |-> "Medium",
                               assign_to |-> "IT Team"])])

\* a step whose type tag is none of the seven
BogusStep == PyDict([id |-> "step3", name |-> "Bogus", type |-> "Bogus",
                     config |-> PyDict(EmptyDict)])

\* a step with no type tag and no config
UntypedStep == PyDict([id |-> "step4", name |-> "Untyped"])

\* a recognized step whose config is a string, not a mapping
BadConfigStep == PyDict([id |-> "step5", name |-> "Bad config",
                         type |-> "Create Ticket", config |-> PyStr("oops")])

\* a step-list entry that is a string, not a mapping
NotAMappingStep == PyStr("step6")

\* the steps the generated workflows are built from
StepPool == {TicketStep, BogusStep, BadConfigStep, NotAMappingStep}

StepLists == UNION {[1..n -> StepPool] : n \in 0..MaxSteps}

Workflow(steps) == [id |-> T_WF001, name |-> T_Onboarding, steps |-> steps]

WellFormedWorkflows == {Workflow(PyList(s)) : s \in StepLists}

MalformedWorkflows ==
    {[name |-> T_Onboarding, steps |-> PyList(<<TicketStep>>)],   \* no id
     [id |-> T_WF001, steps |-> PyList(<<TicketStep>>)],          \* no name
     [id |-> T_WF001, name |-> T_Onboarding],                     \* no steps
     Workflow(PyNone)}                                            \* steps = None

\* the specification's scenarios: one Send Email step run with trigger
\* {name: Sam}, and [Create Ticket, Bogus]
TriggerSam == PyDict(<< <<T_name, T_Sam>> >>)
EmailScenario == Workflow(PyList(<<EmailStep>>))
BogusScenario == Workflow(PyList(<<TicketStep, BogusStep>>))

\* the <<workflow, trigger_data>> arguments of the calls one caller makes
CallPool ==
    {<<w, PyNone>> : w \in WellFormedWorkflows \cup MalformedWorkflows}
        \cup {<<EmailScenario, TriggerSam>>,
              <<Workflow(PyList(<<UntypedStep>>)), PyDict(<<>>)>>}

\* the arguments of the calls that concurrent callers make
ConcurrentCallPool ==
    {<<EmailScenario, TriggerSam>>,
     <<BogusScenario, PyNone>>,
     <<Workflow(PyList(<<>>)), PyNone>>,
     <<Workflow(PyList(<<NotAMappingStep>>)), PyNone>>}

-----------------------------------------------------------------------------
(* State                                                                   *)

VARIABLES
    active_workflows,   \* self.active_workflows: execution id -> the run whose
                        \* execution_context object the entry refers to
    workflow_history,   \* self.workflow_history: list of context copies
    uuid_count,         \* identifiers drawn from uuid4 so far
    pc,                 \* per call of execute_workflow: where it stands
    workflow,           \* per call: the workflow argument
    ctx,                \* per call: the execution_context object
    idx,                \* per call: steps the for loop has taken from the list
    exc,                \* per call: str(e) of the exception being handled
    calls,              \* per call: invocations of execute_step so far
    reply,              \* the last registry query of an observer and what it got
    app                 \* a function applied on its own: arguments and outcome

vars == <<active_workflows, workflow_history, uuid_count, pc, workflow, ctx,
          idx, exc, calls, reply, app>>

\* no query made yet, no function applied on its own
NoReply == [op |-> "none"]
NoApp == [fn |-> "none"]

Init ==
    /\ active_workflows = EmptyDict
    /\ workflow_history = <<>>
    /\ uuid_count = 0
    /\ pc = [r \in Runs |-> "idle"]
    /\ workflow = [r \in Runs |-> EmptyDict]
    /\ ctx = [r \in Runs |-> EmptyDict]
    /\ idx = [r \in Runs |-> 0]
    /\ exc = [r \in Runs |-> ""]
    /\ calls = [r \in Runs |-> 0]
    /\ reply = NoReply
    /\ app = NoApp

\* d[key] = value and del d[key] on the registry dict
DictSet(d, key, value) ==
    [k \in DOMAIN d \cup {key} |-> IF k = key THEN value ELSE d[k]]
DictDel(d, key) == [k \in DOMAIN d \ {key} |-> d[k]]

\* mutant: the trigger data is dropped
OrEmpty_Dropped(trigger_data) == <<>>

\* trigger_data or {}
OrEmpty(trigger_data) == IF trigger_data.t = "dict" THEN trigger_data.v ELSE <<>>

\* the execution_context literal of execute_workflow
NewContext(execution_id, w, trigger_data) ==
    [id |-> execution_id,
     workflow_id |-> w["id"],
     workflow_name |-> w["name"],
     started_at |-> IsoNow,
     status |-> "running",
     current_step |-> 0,
     trigger_data |-> OrEmpty(trigger_data),
     step_results |-> <<>>,
     variables |-> <<>>]

InFlight(r) == pc[r] \notin {"idle", "returned", "raised"}

\* mutant: a call that raises before the try leaves an entry in the history
Call_Recorded(r, w, trigger_data) ==
    /\ pc[r] = "idle"
    /\ \A q \in Runs : q < r => pc[q] # "idle"
    /\ uuid_count' = uuid_count + 1
    /\ IF "id" \notin DOMAIN w \/ "name" \notin DOMAIN w
       THEN /\ pc' = [pc EXCEPT ![r] = "raised"]
            /\ exc' = [exc EXCEPT ![r] = "'id'"]
            /\ workflow_history' =
                   Append(workflow_history,
                          [id |-> Uuid4(uuid_count + 1), status |-> "error",
                           completed_at |-> IsoNow, step_results |-> <<>>])
            /\ UNCHANGED <<workflow, ctx>>
       ELSE /\ pc' = [pc EXCEPT ![r] = "register"]
            /\ workflow' = [workflow EXCEPT ![r] = w]
            /\ ctx' = [ctx EXCEPT ![r] = NewContext(Uuid4(uuid_count + 1), w, trigger_data)]
            /\ exc' = exc
            /\ workflow_history' = workflow_history
    /\ UNCHANGED <<active_workflows, idx, calls>>
    /\ UNCHANGED <<reply, app>>

\* execute_workflow is entered: the identifier is drawn and the context built,
\* before the try; a workflow without 'id' or 'name' raises KeyError here
Call(r, w, trigger_data) ==
    /\ pc[r] = "idle"
    /\ \A q \in Runs : q < r => pc[q] # "idle"
    /\ uuid_count' = uuid_count + 1
    /\ IF "id" \notin DOMAIN w
       THEN /\ pc' = [pc EXCEPT ![r] = "raised"]
            /\ exc' = [exc EXCEPT ![r] = "'id'"]
            /\ UNCHANGED <<workflow, ctx>>
       ELSE IF "name" \notin DOMAIN w
       THEN /\ pc' = [pc EXCEPT ![r] = "raised"]
            /\ exc' = [exc EXCEPT ![r] = "'name'"]
            /\ UNCHANGED <<workflow, ctx>>
       ELSE /\ pc' = [pc EXCEPT ![r] = "register"]
            /\ workflow' = [workflow EXCEPT ![r] = w]
            /\ ctx' = [ctx EXCEPT ![r] = NewContext(Uuid4(uuid_count + 1), w, trigger_data)]
            /\ exc' = exc
    /\ UNCHANGED <<active_workflows, workflow_history, idx, calls>>
    /\ UNCHANGED <<reply, app>>

\* mutant: the registry dict is replaced instead of updated, which drops the
\* entries of the other runs
Register_Replace(r) ==
    /\ pc[r] = "register"
    /\ active_workflows' = DictSet(EmptyDict, ctx[r]["id"], r)
    /\ pc' = [pc EXCEPT ![r] = "for"]
    /\ UNCHANGED <<workflow_history, uuid_count, workflow, ctx, idx, exc, calls>>
    /\ UNCHANGED <<reply, app>>

\* self.active_workflows[execution_id] = execution_context
Register(r) ==
    /\ pc[r] = "register"
    /\ active_workflows' = DictSet(active_workflows, ctx[r]["id"], r)
    /\ pc' = [pc EXCEPT ![r] = "for"]
    /\ UNCHANGED <<workflow_history, uuid_count, workflow, ctx, idx, exc, calls>>
    /\ UNCHANGED <<reply, app>>

\* for i, step in enumerate(workflow['steps']): the next step is taken and
\* current_step set, or the list is exhausted, or the list cannot be read
ForNext(r) ==
    /\ pc[r] = "for"
    /\ IF "steps" \notin DOMAIN workflow[r]
       THEN /\ exc' = [exc EXCEPT ![r] = "'steps'"]
            /\ pc' = [pc EXCEPT ![r] = "except"]
            /\ UNCHANGED <<ctx, idx>>
       ELSE IF workflow[r]["steps"].t # "list"
       THEN /\ exc' = [exc EXCEPT ![r] = "'NoneType' object is not iterable"]
            /\ pc' = [pc EXCEPT ![r] = "except"]
            /\ UNCHANGED <<ctx, idx>>
       ELSE IF idx[r] < Len(workflow[r]["steps"].v)
       THEN /\ ctx' = [ctx EXCEPT ![r]["current_step"] = idx[r]]
            /\ idx' = [idx EXCEPT ![r] = idx[r] + 1]
            /\ pc' = [pc EXCEPT ![r] = "exec"]
            /\ exc' = exc
       ELSE /\ pc' = [pc EXCEPT ![r] = "mark"]
            /\ UNCHANGED <<ctx, idx, exc>>
    /\ UNCHANGED <<active_workflows, workflow_history, uuid_count, workflow, calls>>
    /\ UNCHANGED <<reply, app>>

\* mutant: the result is put at the head of step_results
ExecStep_Prepend(r) ==
    /\ pc[r] = "exec"
    /\ calls' = [calls EXCEPT ![r] = calls[r] + 1]
    /\ LET step == workflow[r]["steps"].v[ctx[r]["current_step"] + 1]
           out == execute_step(step, ctx[r])
       IN  IF out.raised
           THEN /\ exc' = [exc EXCEPT ![r] = out.exc]
                /\ pc' = [pc EXCEPT ![r] = "except"]
                /\ ctx' = ctx
           ELSE /\ ctx' = [ctx EXCEPT ![r]["step_results"] = <<out.value>> \o @]
                /\ pc' = [pc EXCEPT ![r] = "check"]
                /\ exc' = exc
    /\ UNCHANGED <<active_workflows, workflow_history, uuid_count, workflow, idx>>
    /\ UNCHANGED <<reply, app>>

\* mutant: a Wait step suspends the run
ExecStep_WaitSuspends(r) ==
    /\ pc[r] = "exec"
    /\ LET step == workflow[r]["steps"].v[ctx[r]["current_step"] + 1]
       IN  step.t = "dict" => Get(step.v, "type", "unknown") # "Wait"
    /\ calls' = [calls EXCEPT ![r] = calls[r] + 1]
    /\ LET step == workflow[r]["steps"].v[ctx[r]["current_step"] + 1]
           out == execute_step(step, ctx[r])
       IN  IF out.raised
           THEN /\ exc' = [exc EXCEPT ![r] = out.exc]
                /\ pc' = [pc EXCEPT ![r] = "except"]
                /\ ctx' = ctx
           ELSE /\ ctx' = [ctx EXCEPT ![r]["step_results"] = Append(@, out.value)]
                /\ pc' = [pc EXCEPT ![r] = "check"]
                /\ exc' = exc
    /\ UNCHANGED <<active_workflows, workflow_history, uuid_count, workflow, idx>>
    /\ UNCHANGED <<reply, app>>

\* step_result = self.execute_step(step, execution_context), appended to
\* step_results; an exception out of execute_step goes to the except clause
ExecStep(r) ==
    /\ pc[r] = "exec"
    /\ calls' = [calls EXCEPT ![r] = calls[r] + 1]
    /\ LET step == workflow[r]["steps"].v[ctx[r]["current_step"] + 1]
           out == execute_step(step, ctx[r])
       IN  IF out.raised
           THEN /\ exc' = [exc EXCEPT ![r] = out.exc]
                /\ pc' = [pc EXCEPT ![r] = "except"]
                /\ ctx' = ctx
           ELSE /\ ctx' = [ctx EXCEPT ![r]["step_results"] = Append(@, out.value)]
                /\ pc' = [pc EXCEPT ![r] = "check"]
                /\ exc' = exc
    /\ UNCHANGED <<active_workflows, workflow_history, uuid_count, workflow, idx>>
    /\ UNCHANGED <<reply, app>>

\* mutant: the success flag of the result is not looked at
CheckFailure_Ignored(r) ==
    /\ pc[r] = "check"
    /\ pc' = [pc EXCEPT ![r] = "for"]
    /\ UNCHANGED <<active_workflows, workflow_history, uuid_count, workflow, ctx,
                   idx, exc, calls>>
    /\ UNCHANGED <<reply, app>>

\* mutant: the failure is recorded but the loop does not break
CheckFailure_NoBreak(r) ==
    /\ pc[r] = "check"
    /\ LET step_result == ctx[r]["step_results"][Len(ctx[r]["step_results"])]
       IN  IF ~ Get(step_result, "success", TRUE)
           THEN ctx' = [ctx EXCEPT ![r] =
                          Put(Put(@, "status", "failed"), "error",
                              Get(step_result, "error", "Step execution failed"))]
           ELSE ctx' = ctx
    /\ pc' = [pc EXCEPT ![r] = "for"]
    /\ UNCHANGED <<active_workflows, workflow_history, uuid_count, workflow, idx,
                   exc, calls>>
    /\ UNCHANGED <<reply, app>>

\* mutant: the recorded error is a fixed text, not the error of the result
CheckFailure_FixedError(r) ==
    /\ pc[r] = "check"
    /\ LET step_result == ctx[r]["step_results"][Len(ctx[r]["step_results"])]
       IN  IF ~ Get(step_result, "success", TRUE)
           THEN /\ ctx' = [ctx EXCEPT ![r] =
                             Put(Put(@, "status", "failed"), "error",
                                 "Step execution failed")]
                /\ pc' = [pc EXCEPT ![r] = "mark"]
           ELSE /\ ctx' = ctx
                /\ pc' = [pc EXCEPT ![r] = "for"]
    /\ UNCHANGED <<active_workflows, workflow_history, uuid_count, workflow, idx,
                   exc, calls>>
    /\ UNCHANGED <<reply, app>>

\* if not step_result.get('success', True): status failed, error recorded, break
CheckFailure(r) ==
    /\ pc[r] = "check"
    /\ LET step_result == ctx[r]["step_results"][Len(ctx[r]["step_results"])]
       IN  IF ~ Get(step_result, "success", TRUE)
           THEN /\ ctx' = [ctx EXCEPT ![r] =
                             Put(Put(@, "status", "failed"), "error",
                                 Get(step_result, "error", "Step execution failed"))]
                /\ pc' = [pc EXCEPT ![r] = "mark"]
           ELSE /\ ctx' = ctx
                /\ pc' = [pc EXCEPT ![r] = "for"]
    /\ UNCHANGED <<active_workflows, workflow_history, uuid_count, workflow, idx,
                   exc, calls>>
    /\ UNCHANGED <<reply, app>>

\* mutant: the status is set to completed without testing that it is running
MarkCompleted_Unconditional(r) ==
    /\ pc[r] = "mark"
    /\ ctx' = [ctx EXCEPT ![r] =
                 Put(Put(@, "status", "completed"), "completed_at", IsoNow)]
    /\ pc' = [pc EXCEPT ![r] = "finally"]
    /\ UNCHANGED <<active_workflows, workflow_history, uuid_count, workflow, idx,
                   exc, calls>>
    /\ UNCHANGED <<reply, app>>

\* mutant: a run with no result is not marked completed
MarkCompleted_NeedsResults(r) ==
    /\ pc[r] = "mark"
    /\ ctx' = [ctx EXCEPT ![r] =
                 Put(IF @["status"] = "running" /\ Len(@["step_results"]) > 0
                     THEN Put(@, "status", "completed")
                     ELSE @,
                     "completed_at", IsoNow)]
    /\ pc' = [pc EXCEPT ![r] = "finally"]
    /\ UNCHANGED <<active_workflows, workflow_history, uuid_count, workflow, idx,
                   exc, calls>>
    /\ UNCHANGED <<reply, app>>

\* after the loop: completed if still running; completed_at stamped
MarkCompleted(r) ==
    /\ pc[r] = "mark"
    /\ ctx' = [ctx EXCEPT ![r] =
                 Put(IF @["status"] = "running" THEN Put(@, "status", "completed")
                     ELSE @,
                     "completed_at", IsoNow)]
    /\ pc' = [pc EXCEPT ![r] = "finally"]
    /\ UNCHANGED <<active_workflows, workflow_history, uuid_count, workflow, idx,
                   exc, calls>>
    /\ UNCHANGED <<reply, app>>

\* except Exception as e: status error, error = str(e), completed_at stamped
Except(r) ==
    /\ pc[r] = "except"
    /\ ctx' = [ctx EXCEPT ![r] =
                 Put(Put(Put(@, "status", "error"), "error", exc[r]),
                     "completed_at", IsoNow)]
    /\ pc' = [pc EXCEPT ![r] = "finally"]
    /\ UNCHANGED <<active_workflows, workflow_history, uuid_count, workflow, idx,
                   exc, calls>>
    /\ UNCHANGED <<reply, app>>

\* mutant: the history is replaced by the finished context alone
AppendHistory_Replace(r) ==
    /\ pc[r] = "finally"
    /\ workflow_history' = <<ctx[r]>>
    /\ pc' = [pc EXCEPT ![r] = "remove"]
    /\ UNCHANGED <<active_workflows, uuid_count, workflow, ctx, idx, exc, calls>>
    /\ UNCHANGED <<reply, app>>

\* finally: self.workflow_history.append(execution_context.copy())
AppendHistory(r) ==
    /\ pc[r] = "finally"
    /\ workflow_history' = Append(workflow_history, ctx[r])
    /\ pc' = [pc EXCEPT ![r] = "remove"]
    /\ UNCHANGED <<active_workflows, uuid_count, workflow, ctx, idx, exc, calls>>
    /\ UNCHANGED <<reply, app>>

\* finally: the entry is deleted from active_workflows; then the context is
\* returned (ctx[r] stays as the value the caller holds) and the frame with the
\* call's other locals is gone
RemoveActive(r) ==
    /\ pc[r] = "remove"
    /\ active_workflows' =
         IF ctx[r]["id"] \in DOMAIN active_workflows
         THEN DictDel(active_workflows, ctx[r]["id"])
         ELSE active_workflows
    /\ pc' = [pc EXCEPT ![r] = "returned"]
    /\ workflow' = [workflow EXCEPT ![r] = EmptyDict]
    /\ idx' = [idx EXCEPT ![r] = 0]
    /\ exc' = [exc EXCEPT ![r] = ""]
    /\ calls' = [calls EXCEPT ![r] = 0]
    /\ UNCHANGED <<workflow_history, uuid_count, ctx>>
    /\ UNCHANGED <<reply, app>>

Step(r) ==
    \/ Register(r)
    \/ ForNext(r)
    \/ ExecStep(r)
    \/ CheckFailure(r)
    \/ MarkCompleted(r)
    \/ Except(r)
    \/ AppendHistory(r)
    \/ RemoveActive(r)

\* One caller: a call is made only when no other call is in flight.
Next ==
    \/ \E r \in Runs, a \in CallPool :
          /\ \A q \in Runs : ~ InFlight(q)
          /\ Call(r, a[1], a[2])
    \/ \E r \in Runs : Step(r)

Spec == Init /\ [][Next]_vars

\* Callers in several threads: calls interleave statement by statement (a dict
\* store, a dict delete and a list append are each atomic in CPython).
ConcurrentNext ==
    \/ \E r \in Runs, a \in ConcurrentCallPool : Call(r, a[1], a[2])
    \/ \E r \in Runs : Step(r)

ConcurrentSpec == Init /\ [][ConcurrentNext]_vars

-----------------------------------------------------------------------------
(* Registry queries                                                        *)

\* mutant: the window is taken at the head of the list, s[:-start]
SliceFrom_Head(s, start) ==
    SubSeq(s, 1, IF 0 - start < Len(s) THEN 0 - start ELSE Len(s))

\* s[start:] of Python, for any integer start
SliceFrom(s, start) ==
    LET n == Len(s)
        lo == IF start < 0 THEN (IF n + start < 0 THEN 0 ELSE n + start)
              ELSE (IF start > n THEN n ELSE start)
    IN  SubSeq(s, lo + 1, n)

get_workflow_history(limit) == SliceFrom(workflow_history, 0 - limit)

get_active_workflows == {ctx[active_workflows[k]] : k \in DOMAIN active_workflows}

NotFound == [error |-> "Workflow execution not found"]

\* for execution in self.workflow_history: the first entry from position from
\* on whose 'id' is execution_id; reading 'id' of an entry without one raises
RECURSIVE SearchHistory(_, _)
SearchHistory(execution_id, from) ==
    IF from > Len(workflow_history) THEN Ok(NotFound)
    ELSE IF "id" \notin DOMAIN workflow_history[from] THEN Raise("'id'")
    ELSE IF workflow_history[from]["id"] = execution_id
         THEN Ok(workflow_history[from])
    ELSE SearchHistory(execution_id, from + 1)

\* mutant: the active set is not consulted
get_workflow_status_HistoryOnly(execution_id) == SearchHistory(execution_id, 1)

\* mutant: an identifier found nowhere gives the newest history entry
get_workflow_status_Newest(execution_id) ==
    IF execution_id \in DOMAIN active_workflows
    THEN Ok(ctx[active_workflows[execution_id]])
    ELSE IF SearchHistory(execution_id, 1) = Ok(NotFound) /\ Len(workflow_history) > 0
    THEN Ok(workflow_history[Len(workflow_history)])
    ELSE SearchHistory(execution_id, 1)

get_workflow_status(execution_id) ==
    IF execution_id \in DOMAIN active_workflows
    THEN Ok(ctx[active_workflows[execution_id]])
    ELSE SearchHistory(execution_id, 1)

\* the identifiers and limits an observer asks about; the last identifier is
\* one no call ever gets
QueryIds == {Uuid4(n) : n \in 1..(MaxRuns + 1)}
QueryLimits == 0..MaxLimit

engine == <<active_workflows, workflow_history, uuid_count, pc, workflow, ctx,
            idx, exc, calls>>

\* an observer calls get_workflow_status(execution_id)
QueryStatus(execution_id) ==
    /\ reply' = [op |-> "get_workflow_status", id |-> execution_id,
                 out |-> get_workflow_status(execution_id)]
    /\ UNCHANGED <<engine, app>>

\* an observer calls get_workflow_history(limit)
QueryHistory(limit) ==
    /\ reply' = [op |-> "get_workflow_history", limit |-> limit,
                 out |-> Ok(get_workflow_history(limit))]
    /\ UNCHANGED <<engine, app>>

\* an observer calls get_active_workflows()
QueryActive ==
    /\ reply' = [op |-> "get_active_workflows", out |-> Ok(get_active_workflows)]
    /\ UNCHANGED <<engine, app>>

\* One caller, and an observer in another thread that queries the registry
\* between any two statements of the caller.
QueryNext ==
    \/ \E r \in Runs, a \in ConcurrentCallPool :
          /\ \A q \in Runs : ~ InFlight(q)
          /\ Call(r, a[1], a[2])
    \/ \E r \in Runs : Step(r)
    \/ \E id \in QueryIds : QueryStatus(id)
    \/ \E limit \in QueryLimits : QueryHistory(limit)
    \/ QueryActive

QuerySpec == Init /\ [][QueryNext]_vars

-----------------------------------------------------------------------------
(* replace_variables and execute_step applied to drawn arguments           *)

T_x == <<"x">>
T_a == <<"a">>
T_b == <<"b">>
T_V == <<"V">>
T_T == <<"T">>
T_workflow_id_key == <<"w", "o", "r", "k", "f", "l", "o", "w", "_", "i", "d">>
T_x_placeholder == <<"{", "{", "x", "}", "}">>
T_y_placeholder == <<"{", "{", "y", "}", "}">>
T_xy_placeholder == <<"{", "{", "x", "y", "}", "}">>
T_x_dash_execution_id == T_x_placeholder \o <<"-">> \o T_execution_id

\* the text arguments of replace_variables
SubstTexts ==
    {<<>>, T_x, T_name, T_x_placeholder, T_y_placeholder, T_xy_placeholder,
     T_x_dash_execution_id, T_workflow_id, T_HiName}

\* the 'variables' and 'trigger_data' dicts of the context argument
SubstScopes == {<<>>, << <<T_x, T_a>> >>, << <<T_workflow_id_key, T_V>> >>}
SubstTriggers ==
    {<<>>, << <<T_x, T_b>> >>, TriggerSam.v, << <<T_workflow_id_key, T_T>> >>}

\* a context as execute_workflow builds it (identifier E1), with the given
\* variables and trigger data
SubstContext(variables, trigger_data) ==
    [NewContext(Uuid4(1), Workflow(PyList(<<>>)), PyDict(trigger_data))
        EXCEPT !["variables"] = variables]

ReplaceArgs ==
    {[fn |-> "replace_variables", text |-> PyStr(t), context |-> SubstContext(v, g)] :
        t \in SubstTexts, v \in SubstScopes, g \in SubstTriggers}

\* the values a config gives for a text key: strings and scalars
ScalarTexts == {PyStr(T_HiName), PyStr(<<>>), PyInt(5), PyInt(0)}

\* the dicts that have the key with one of the values, or do not have it
OptKey(key, values) == {EmptyDict} \cup {key :> v : v \in values}

EmailConfigs ==
    {a @@ b @@ c : a \in OptKey("to", {PyStr(T_a_at_b)}),
                   b \in OptKey("subject", ScalarTexts),
                   c \in OptKey("template", ScalarTexts)}

ConditionConfigs ==
    {a @@ b : a \in OptKey("condition", ScalarTexts),
              b \in OptKey("true_action", {PyDict(EmptyDict)})}

\* the configs of the executors that only copy their config values
CopiedConfigs(step_type) ==
    IF step_type = "Create Ticket" THEN OptKey("priority", {PyStr(T_a), PyInt(5)})
    ELSE IF step_type = "Assign Task" THEN OptKey("assign_to", {PyStr(T_a), PyInt(5)})
    ELSE IF step_type = "API Call" THEN OptKey("url", {PyStr(T_a), PyInt(5)})
    ELSE IF step_type = "Approval" THEN OptKey("approver", {PyStr(T_a), PyInt(5)})
    ELSE OptKey("duration", {PyStr(T_a), PyInt(60)})

SevenTypes ==
    {"Send Email", "Create Ticket", "Assign Task", "API Call", "Approval",
     "Wait", "Condition"}

ConfigsOf(step_type) ==
    IF step_type = "Send Email" THEN EmailConfigs
    ELSE IF step_type = "Condition" THEN ConditionConfigs
    ELSE CopiedConfigs(step_type)

\* steps of the seven types whose config is a mapping of string keys to
\* strings and scalars
ScalarSteps ==
    UNION {{PyDict([type |-> ty, config |-> PyDict(c)]) : c \in ConfigsOf(ty)} :
              ty \in SevenTypes}

StepArgs ==
    {[fn |-> "execute_step", step |-> st, context |-> SubstContext(<<>>, TriggerSam.v)] :
        st \in ScalarSteps}

\* the function named by app has returned or raised
Applied(fn) == app.fn = fn /\ "out" \in DOMAIN app

\* replace_variables(text, context) is called on the drawn arguments
ApplyReplace ==
    /\ app.fn = "replace_variables" /\ ~ Applied("replace_variables")
    /\ app' = [fn |-> app.fn, text |-> app.text, context |-> app.context,
               out |-> replace_variables(app.text, app.context)]
    /\ UNCHANGED <<engine, reply>>

\* execute_step(step, context) is called on the drawn arguments
ApplyStep ==
    /\ app.fn = "execute_step" /\ ~ Applied("execute_step")
    /\ app' = [fn |-> app.fn, step |-> app.step, context |-> app.context,
               out |-> execute_step(app.step, app.context)]
    /\ UNCHANGED <<engine, reply>>

ApplyInit ==
    /\ active_workflows = EmptyDict
    /\ workflow_history = <<>>
    /\ uuid_count = 0
    /\ pc = [r \in Runs |-> "idle"]
    /\ workflow = [r \in Runs |-> EmptyDict]
    /\ ctx = [r \in Runs |-> EmptyDict]
    /\ idx = [r \in Runs |-> 0]
    /\ exc = [r \in Runs |-> ""]
    /\ calls = [r \in Runs |-> 0]
    /\ reply = NoReply
    /\ app \in ReplaceArgs \cup StepArgs

ApplyNext == ApplyReplace \/ ApplyStep

ApplySpec == ApplyInit /\ [][ApplyNext]_vars

-----------------------------------------------------------------------------
(* Runs of the step kinds the generated workflows leave out                *)

T_employee_email_key ==
    <<"e", "m", "p", "l", "o", "y", "e", "e", "_", "e", "m", "a", "i", "l">>
T_employee_email ==
    <<"{", "{", "e", "m", "p", "l", "o", "y", "e", "e", "_", "e", "m", "a",
      "i", "l", "}", "}">>
T_sam_at_x == <<"s", "a", "m", "@", "x">>
T_WelcomeSubject ==
    <<"W", "e", "l", "c", "o", "m", "e", " ", "t", "o", " ", "t", "h", "e",
      " ", "C", "o", "m", "p", "a", "n", "y", "!">>
T_WelcomeTemplate ==
    <<"W", "e", "l", "c", "o", "m", "e", " ", "e", "m", "a", "i", "l", " ",
      "w", "i", "t", "h", " ", "f", "i", "r", "s", "t", " ", "d", "a", "y",
      " ", "i", "n", "s", "t", "r", "u", "c", "t", "i", "o", "n", "s">>

\* the Send Email step of the sample workflow WF001
SampleEmailStep ==
    PyDict([id |-> "step1", name |-> "Send Welcome Email", type |-> "Send Email",
            config |-> PyDict([to |-> PyStr(T_employee_email),
                               subject |-> PyStr(T_WelcomeSubject),
                               template |-> PyStr(T_WelcomeTemplate)])])

\* the action payloads of a Condition step: each looks like a step
TrueAction == PyDict([type |-> "Create Ticket", config |-> PyDict(EmptyDict)])
FalseAction == PyDict([type |-> "Bogus", config |-> PyDict(EmptyDict)])

ConditionStep(condition) ==
    PyDict([id |-> "step7", name |-> "Check", type |-> "Condition",
            config |-> PyDict([condition |-> PyStr(condition),
                               true_action |-> TrueAction,
                               false_action |-> FalseAction])])

WaitStep(duration) ==
    PyDict([id |-> "step8", name |-> "Wait", type |-> "Wait",
            config |-> PyDict([duration |-> duration, reason |-> "cooling off"])])

ApprovalStep ==
    PyDict([id |-> "step9", name |-> "Approve", type |-> "Approval",
            config |-> PyDict([approver |-> "HR", type |-> "manual"])])

\* condition texts: a placeholder, a bare key, the word false, the empty text
T_false == <<"f", "a", "l", "s", "e">>
ConditionTexts == {T_x_placeholder, T_x, T_false, <<>>}

\* durations of a Wait step, in seconds
WaitDurations == {0, 60, 86400}

TriggerX == PyDict(<< <<T_x, T_b>> >>)
TriggerEmployee == PyDict(<< <<T_employee_email_key, T_sam_at_x>> >>)
ScenarioTriggers == {PyNone, PyDict(<<>>), TriggerSam, TriggerEmployee}

SampleWorkflow == Workflow(PyList(<<SampleEmailStep, TicketStep>>))

\* the <<workflow, trigger_data>> arguments of the scenario calls: Condition,
\* Wait and Approval steps, empty step lists, a failing and a faulting run
StepKindCallPool ==
    {<<Workflow(PyList(<<ConditionStep(c), TicketStep>>)), g>> :
        c \in ConditionTexts, g \in {PyNone, TriggerX}}
      \cup {<<Workflow(PyList(<<WaitStep(d), ApprovalStep>>)), PyNone>> :
               d \in WaitDurations}
      \cup {<<Workflow(PyList(<<>>)), g>> : g \in ScenarioTriggers}
      \cup {<<BogusScenario, PyNone>>,
            <<Workflow(PyList(<<TicketStep, NotAMappingStep>>)), PyNone>>}

\* ... and the sample workflow
ScenarioCallPool ==
    StepKindCallPool
      \cup {<<SampleWorkflow, g>> : g \in {PyNone, TriggerEmployee, TriggerSam}}

\* One caller making the scenario calls.
ScenarioNext ==
    \/ \E r \in Runs, a \in ScenarioCallPool :
          /\ \A q \in Runs : ~ InFlight(q)
          /\ Call(r, a[1], a[2])
    \/ \E r \in Runs : Step(r)

ScenarioSpec == Init /\ [][ScenarioNext]_vars

\* the calls whose termination is followed: every step kind that could wait,
\* an empty step list, a failing run, a faulting run, a substitution
TerminationCallPool ==
    {<<Workflow(PyList(<<WaitStep(d), ApprovalStep>>)), PyNone>> : d \in WaitDurations}
      \cup {<<Workflow(PyList(<<>>)), PyNone>>,
            <<Workflow(PyList(<<ConditionStep(T_x_placeholder), TicketStep>>)), TriggerX>>,
            <<BogusScenario, PyNone>>,
            <<Workflow(PyList(<<TicketStep, NotAMappingStep>>)), PyNone>>,
            <<EmailScenario, TriggerSam>>}

TerminationNext ==
    \/ \E r \in Runs, a \in TerminationCallPool :
          /\ \A q \in Runs : ~ InFlight(q)
          /\ Call(r, a[1], a[2])
    \/ \E r \in Runs : Step(r)

\* The caller's thread keeps running the call it is in: no statement of
\* execute_workflow waits for anything.
TerminationSpec ==
    Init /\ [][TerminationNext]_vars /\ WF_vars(\E r \in Runs : Step(r))

-----------------------------------------------------------------------------
(* Properties                                                              *)

Terminal == {"completed", "failed", "error"}

\* the call r has a context (it got past the construction of the context)
HasContext(r) == pc[r] \notin {"idle", "raised"}

\* the call r is past its try block: its outcome is final, its locals still live
Finalizing(r) == pc[r] \in {"finally", "remove"}

\* the workflow of the call r has a step list the loop can iterate
HasStepList(r) ==
    /\ "steps" \in DOMAIN workflow[r]
    /\ workflow[r]["steps"].t = "list"

StepsOf(r) == workflow[r]["steps"].v

\* what execute_step gives for the j-th step of the workflow of the call r
OutcomeOf(r, j) == execute_step(StepsOf(r)[j], ctx[r])

\* step k of the call r is the first whose result has success = false
FirstFailing(r, k) ==
    /\ \A j \in 1..(k - 1) : ~ OutcomeOf(r, j).raised /\ OutcomeOf(r, j).value["success"]
    /\ ~ OutcomeOf(r, k).raised
    /\ ~ OutcomeOf(r, k).value["success"]

\* C1: fail-fast. When step k is the first step whose result has success =
\* false, the run ends with status failed, exactly k results, the k-th being
\* the failed one, and execute_step was called exactly k times.
C1_FailFast ==
    \A r \in Runs :
        Finalizing(r) /\ HasStepList(r) =>
            \A k \in 1..Len(StepsOf(r)) :
                FirstFailing(r, k) =>
                    /\ ctx[r]["status"] = "failed"
                    /\ Len(ctx[r]["step_results"]) = k
                    /\ ~ ctx[r]["step_results"][k]["success"]
                    /\ calls[r] = k

\* a run ended on a failing first step with a further step left unexecuted
C1_Witness ==
    \E r \in Runs :
        /\ pc[r] = "remove"
        /\ HasStepList(r)
        /\ Len(StepsOf(r)) = 2
        /\ FirstFailing(r, 1)
        /\ calls[r] = 1

StatusOf(c) == Get(c, "status", "<none>")

\* C2: the status of an execution is always one of running, completed,
\* failed, error; it starts as running; it changes only from running to a
\* terminal status; a terminal status never changes.
C2_StatusMachine ==
    /\ [](\A r \in Runs : HasContext(r) => ctx[r]["status"] \in {"running"} \cup Terminal)
    /\ [][\A r \in Runs :
            /\ (~ HasContext(r) /\ HasContext(r)') => ctx'[r]["status"] = "running"
            /\ (HasContext(r) /\ StatusOf(ctx'[r]) # StatusOf(ctx[r])) =>
                   /\ ctx[r]["status"] = "running"
                   /\ ctx'[r]["status"] \in Terminal]_vars

\* one execution is failed and returned while a later one is running
C2_Witness ==
    \E r, q \in Runs :
        /\ pc[r] = "returned" /\ ctx[r]["status"] = "failed"
        /\ pc[q] = "exec" /\ ctx[q]["status"] = "running"

\* the workflow value lacks what execute_workflow reads from it
Malformed(w) ==
    \/ "id" \notin DOMAIN w
    \/ "name" \notin DOMAIN w
    \/ "steps" \notin DOMAIN w
    \/ w["steps"].t # "list"

\* C3: for every workflow value, malformed ones included, execute_workflow
\* raises nothing to its caller; a malformed workflow ends with status error
\* and the fault message, and the context is appended to the history.
C3_NeverRaises ==
    \A r \in Runs :
        /\ pc[r] # "raised"
        /\ (pc[r] = "remove" /\ Malformed(workflow[r])) =>
               /\ ctx[r]["status"] = "error"
               /\ ctx[r]["error"] = exc[r]
               /\ workflow_history[Len(workflow_history)] = ctx[r]

\* the handler of the step's type raises for this step
HandlerRaises(step, context) ==
    /\ step.t = "dict"
    /\ Dispatch(Get(step.v, "type", "unknown"),
                Get(step.v, "config", PyDict(EmptyDict)), context).raised

\* the number of the step the call r executed last
LastExecuted(r) == calls[r]

\* C4: when the handler of a recognized step raises, execute_step returns a
\* result with success = false and the message "Step execution failed: " and
\* the fault, nothing propagates to the except clause of the run, and the run
\* halts at that step with status failed.
C4_HandlerFaultIsFailedStep ==
    \A r \in Runs :
        (HasContext(r) /\ pc[r] # "returned" /\ HasStepList(r) /\ LastExecuted(r) >= 1
            /\ HandlerRaises(StepsOf(r)[LastExecuted(r)], ctx[r])) =>
            LET k == LastExecuted(r)
                results == ctx[r]["step_results"]
            IN  /\ pc[r] \in {"check", "mark", "finally", "remove"}
                /\ Len(results) = k
                /\ results[k]["success"] = FALSE
                /\ results[k]["error"] = "Step execution failed: " \o NoGetAttribute
                /\ pc[r] # "check" =>
                       /\ ctx[r]["status"] = "failed"
                       /\ ctx[r]["error"] = results[k]["error"]

\* a run ended at a first step whose config is no mapping, the step after it
\* left unexecuted
C4_Witness ==
    \E r \in Runs :
        /\ pc[r] = "remove"
        /\ calls[r] = 1
        /\ HasStepList(r)
        /\ Len(StepsOf(r)) = 2
        /\ StepsOf(r)[1] = BadConfigStep
        /\ ctx[r]["status"] = "failed"

RecognizedTypes == {"Send Email", "Create Ticket", "Assign Task", "API Call",
                    "Approval", "Wait", "Condition"}

\* the type tag execute_step reads from a step
TagOf(step) == Get(step.v, "type", "unknown")

\* C5: a step whose type tag is none of the seven yields a result with
\* success = false and error "Unknown step type: <tag>"; the run halts at that
\* step with status failed and nothing is raised.
C5_UnknownStepType ==
    \A r \in Runs :
        (HasContext(r) /\ pc[r] # "returned" /\ HasStepList(r) /\ LastExecuted(r) >= 1
            /\ StepsOf(r)[LastExecuted(r)].t = "dict"
            /\ TagOf(StepsOf(r)[LastExecuted(r)]) \notin RecognizedTypes) =>
            LET k == LastExecuted(r)
                results == ctx[r]["step_results"]
            IN  /\ pc[r] \in {"check", "mark", "finally", "remove"}
                /\ Len(results) = k
                /\ results[k]["success"] = FALSE
                /\ results[k]["error"] = "Unknown step type: " \o TagOf(StepsOf(r)[k])
                /\ pc[r] # "check" =>
                       /\ ctx[r]["status"] = "failed"
                       /\ ctx[r]["error"] = results[k]["error"]

\* the scenario [Create Ticket, Bogus]: failed, two results, the second
\* naming Bogus
C5_Witness ==
    \E r \in Runs :
        /\ pc[r] = "remove"
        /\ workflow[r] = BogusScenario
        /\ ctx[r]["status"] = "failed"
        /\ Len(ctx[r]["step_results"]) = 2
        /\ ctx[r]["step_results"][1]["success"]
        /\ ctx[r]["step_results"][2]["error"] = "Unknown step type: Bogus"

\* C6: a run ends completed exactly when every step of the workflow was
\* executed and returned success = true, and then there are as many results
\* as steps.
C6_CompletedIffAllSucceeded ==
    \A r \in Runs :
        Finalizing(r) =>
            LET results == ctx[r]["step_results"]
                allSucceeded ==
                    /\ HasStepList(r)
                    /\ calls[r] = Len(StepsOf(r))
                    /\ Len(results) = Len(StepsOf(r))
                    /\ \A j \in 1..Len(results) : results[j]["success"]
            IN  ctx[r]["status"] = "completed" <=> allSucceeded

\* a run of two steps ended completed
C6_Witness ==
    \E r \in Runs :
        /\ pc[r] = "remove"
        /\ ctx[r]["status"] = "completed"
        /\ Len(ctx[r]["step_results"]) = 2

\* no call of execute_workflow is in flight
Quiescent == \A r \in Runs : ~ InFlight(r)

Returned == {r \in Runs : pc[r] = "returned"}

\* the positions of the history entries that carry the identifier id
EntriesOf(id) == {i \in 1..Len(workflow_history) : workflow_history[i]["id"] = id}

\* C7: once every call has returned, the active set is empty, the history
\* holds exactly one entry per call, the entries have pairwise distinct
\* execution identifiers and each carries a completion timestamp.
C7_OneEntryPerCall ==
    Quiescent =>
        /\ DOMAIN active_workflows = {}
        /\ Len(workflow_history) = Cardinality(Returned)
        /\ \A r \in Returned : Cardinality(EntriesOf(ctx[r]["id"])) = 1
        /\ \A i, j \in 1..Len(workflow_history) :
               i # j => workflow_history[i]["id"] # workflow_history[j]["id"]
        /\ \A i \in 1..Len(workflow_history) :
               /\ "completed_at" \in DOMAIN workflow_history[i]
               /\ Len(workflow_history[i]["completed_at"]) > 0

\* the same workflow of two steps was run twice and completed twice
C7_Witness ==
    /\ Quiescent
    /\ Len(workflow_history) = 2
    /\ \A i \in 1..2 :
           /\ workflow_history[i]["workflow_id"] = T_WF001
           /\ workflow_history[i]["status"] = "completed"
           /\ Len(workflow_history[i]["step_results"]) = 2

\* C8: no execution identifier is at once in the active set and in the
\* history, in any state; so get_workflow_history never returns an execution
\* that is still active.
C8_ActiveNotInHistory ==
    /\ \A id \in DOMAIN active_workflows : EntriesOf(id) = {}
    /\ \A limit \in 1..MaxLimit :
           \A i \in 1..Len(get_workflow_history(limit)) :
               get_workflow_history(limit)[i]["id"] \notin DOMAIN active_workflows

\* C9: for every limit >= 0, get_workflow_history(limit) returns at most
\* limit entries; limit = 0 returns none.
C9_AtMostLimit ==
    \A limit \in 0..MaxLimit : Len(get_workflow_history(limit)) <= limit

\* the call r has registered its context and not yet removed it
Registered(r) == pc[r] \in {"for", "exec", "check", "mark", "except", "finally", "remove"}

\* C10: interleaved runs do not interfere. The results in a run's context are
\* those of its own workflow's steps, in order; a registered run is in the
\* active set under its own identifier, with its own context; a run has one
\* history entry, equal to its context, from its append on and none before;
\* when all runs have finished the active set is empty and the history has
\* one entry per run.
C10_RunsDoNotInterfere ==
    /\ \A r \in Runs :
           (HasContext(r) /\ pc[r] # "returned") =>
               LET results == ctx[r]["step_results"]
               IN  /\ Len(results) > 0 => HasStepList(r) /\ Len(results) <= Len(StepsOf(r))
                   /\ \A j \in 1..Len(results) : Ok(results[j]) = OutcomeOf(r, j)
    /\ \A r \in Runs :
           Registered(r) =>
               /\ ctx[r]["id"] \in DOMAIN active_workflows
               /\ active_workflows[ctx[r]["id"]] = r
    /\ \A r \in Runs :
           HasContext(r) =>
               IF pc[r] \in {"remove", "returned"}
               THEN /\ Cardinality(EntriesOf(ctx[r]["id"])) = 1
                    /\ \A i \in EntriesOf(ctx[r]["id"]) : workflow_history[i] = ctx[r]
               ELSE EntriesOf(ctx[r]["id"]) = {}
    /\ Quiescent =>
           /\ DOMAIN active_workflows = {}
           /\ Len(workflow_history) = Cardinality(Returned)

\* two runs of different workflows are in flight at once, each holding a
\* result of its own
C10_Witness ==
    \E r, q \in Runs :
        /\ r # q
        /\ pc[r] = "check" /\ pc[q] = "finally"
        /\ workflow[r] = BogusScenario /\ workflow[q] = EmailScenario
        /\ Len(ctx[r]["step_results"]) = 2
        /\ Len(ctx[q]["step_results"]) = 1

\* the identifiers handed out so far
Issued == {Uuid4(n) : n \in 1..uuid_count}

\* the calls whose context carries the identifier id
RunsOf(id) == {r \in Runs : HasContext(r) /\ ctx[r]["id"] = id}

\* C11: get_workflow_status(id) returns the active context while the run with
\* that identifier is in the active set; once the run has returned it returns
\* the history entry with that identifier, whose status and step results are
\* those of the context execute_workflow returned.
C11_StatusLookup ==
    [][\A id \in QueryIds : QueryStatus(id) =>
          \A r \in RunsOf(id) :
              /\ id \in DOMAIN active_workflows =>
                     reply'.out = Ok(ctx[active_workflows[id]])
              /\ pc[r] = "returned" =>
                     /\ ~ reply'.out.raised
                     /\ \E i \in EntriesOf(id) : reply'.out.value = workflow_history[i]
                     /\ reply'.out.value["id"] = id
                     /\ reply'.out.value["status"] = ctx[r]["status"]
                     /\ reply'.out.value["step_results"] = ctx[r]["step_results"]]_vars

\* the observer was answered with the entry of a run that returned failed
\* after two steps, while the next run is registered and about to run a step
C11_Witness ==
    \E r, q \in Runs :
        /\ pc[r] = "returned" /\ pc[q] = "exec"
        /\ reply.op = "get_workflow_status"
        /\ reply.id = ctx[r]["id"]
        /\ reply.out = Ok(ctx[r])
        /\ ctx[r]["status"] = "failed"
        /\ Len(ctx[r]["step_results"]) = 2
        /\ ctx[q]["id"] \in DOMAIN active_workflows

\* C12: get_workflow_status with an identifier that was never issued returns
\* {'error': 'Workflow execution not found'}, raises nothing, and leaves the
\* active set and the history as they were.
C12_NotFound ==
    [][\A id \in QueryIds : (QueryStatus(id) /\ id \notin Issued) =>
          /\ reply'.out = Ok(NotFound)
          /\ active_workflows' = active_workflows
          /\ workflow_history' = workflow_history]_vars

\* the observer asked for an identifier no call ever got, while the history
\* has an entry and a run is registered
C12_Witness ==
    /\ reply.op = "get_workflow_status"
    /\ reply.id = Uuid4(MaxRuns + 1)
    /\ reply.out = Ok(NotFound)
    /\ Len(workflow_history) > 0
    /\ DOMAIN active_workflows # {}

\* C13: get_workflow_history(limit) with 1 <= limit returns exactly the last
\* min(limit, length) entries of the history, in the order in which the runs
\* finished: with one caller the i-th run to finish is the i-th call, which
\* holds the i-th identifier.
C13_LastEntriesInOrder ==
    [][\A limit \in 1..MaxLimit : QueryHistory(limit) =>
          LET n == Len(workflow_history)
              k == IF limit < n THEN limit ELSE n
          IN  /\ ~ reply'.out.raised
              /\ Len(reply'.out.value) = k
              /\ \A i \in 1..k :
                     /\ reply'.out.value[i] = workflow_history[n - k + i]
                     /\ reply'.out.value[i]["id"] = Uuid4(n - k + i)]_vars

\* the observer asked for one entry of a history of two and got the newest
C13_Witness ==
    /\ reply.op = "get_workflow_history"
    /\ reply.limit = 1
    /\ Len(workflow_history) = 2
    /\ reply.out = Ok(<<workflow_history[2]>>)

T_HiSam == <<"H", "i", " ", "S", "a", "m">>
T_HelloSam == <<"H", "e", "l", "l", "o", " ", "S", "a", "m">>

\* the call r runs the scenario: one Send Email step with subject "Hi {{name}}"
\* and template "Hello {{name}}", trigger {name: "Sam"}
RunsEmailScenario(r) ==
    /\ workflow[r] = EmailScenario
    /\ ctx[r]["trigger_data"] = TriggerSam.v

\* C14: the scenario's run ends completed with a single result whose subject
\* is "Hi Sam" and whose body is "Hello Sam".
C14_EmailScenarioResolved ==
    \A r \in Runs :
        Finalizing(r) /\ RunsEmailScenario(r) =>
            /\ ctx[r]["status"] = "completed"
            /\ Len(ctx[r]["step_results"]) = 1
            /\ ctx[r]["step_results"][1]["result"]["subject"] = PyStr(T_HiSam)
            /\ ctx[r]["step_results"][1]["result"]["body"] = PyStr(T_HelloSam)

\* the keys of a dict given as its items, and the value bound to a key
KeysOf(items) == {items[i][1] : i \in 1..Len(items)}
ValueOf(items, key) == items[ItemIndex(items, key, 1)][2]

\* the placeholder of a key, and the key of a text that is one placeholder
Placeholder(key) == <<"{", "{">> \o key \o <<"}", "}">>
Inner(text) == SubSeq(text, 3, Len(text) - 2)
IsPlaceholder(text) ==
    /\ Len(text) > 4
    /\ text = Placeholder(Inner(text))
    /\ \A i \in 1..Len(Inner(text)) : Inner(text)[i] \notin {"{", "}"}

BuiltinNames == {Inner(T_workflow_id), Inner(T_execution_id), Inner(T_started_at)}

\* the text has no {{ in it
NoPlaceholder(text) ==
    ~ \E i \in 1..(Len(text) - 1) : text[i] = "{" /\ text[i + 1] = "{"

\* C15: with execution identifier E1, variables {x: a} and trigger data
\* {x: b}, "{{x}}-{{execution_id}}" gives "b-E1"; in general the placeholder
\* of a key bound in both the variables and the trigger data gives the
\* trigger value.
C15_TriggerOverScope ==
    Applied("replace_variables") =>
        LET variables == app.context["variables"]
            trigger_data == app.context["trigger_data"]
        IN  /\ ( /\ app.text = PyStr(T_x_dash_execution_id)
                 /\ variables = << <<T_x, T_a>> >>
                 /\ trigger_data = << <<T_x, T_b>> >> ) =>
                     app.out = Ok(PyStr(<<"b", "-", "E", "1">>))
            /\ \A k \in KeysOf(variables) \cap KeysOf(trigger_data) :
                   app.text = PyStr(Placeholder(k)) =>
                       app.out = Ok(PyStr(ValueOf(trigger_data, k)))

\* C16: when the trigger data or the variables bind a built-in name, the
\* placeholder of that name gives the overriding value (the trigger's when
\* both bind it), not the built-in identifier of the run.
C16_OverrideBuiltins ==
    Applied("replace_variables") =>
        LET variables == app.context["variables"]
            trigger_data == app.context["trigger_data"]
        IN  \A k \in BuiltinNames \cap (KeysOf(variables) \cup KeysOf(trigger_data)) :
                app.text = PyStr(Placeholder(k)) =>
                    app.out = Ok(PyStr(IF k \in KeysOf(trigger_data)
                                       THEN ValueOf(trigger_data, k)
                                       ELSE ValueOf(variables, k)))

\* C17: on a text with no {{...}} placeholder replace_variables returns the
\* text, whatever the variables and the trigger data.
C17_IdentityWithoutPlaceholder ==
    (Applied("replace_variables") /\ NoPlaceholder(app.text.v)) =>
        app.out = Ok(app.text)

\* C18: a placeholder whose key is bound neither as a built-in nor in the
\* variables nor in the trigger data comes out unchanged, and nothing is
\* raised.
C18_UnboundLeftVerbatim ==
    ( /\ Applied("replace_variables")
      /\ IsPlaceholder(app.text.v)
      /\ Inner(app.text.v) \notin
             BuiltinNames \cup KeysOf(app.context["variables"])
                 \cup KeysOf(app.context["trigger_data"]) ) =>
        app.out = Ok(app.text)

\* C19: execute_step on a step of one of the seven types whose config maps
\* string keys to strings and scalars returns success = true with a non-empty
\* executed_at.
C19_ScalarConfigSucceeds ==
    Applied("execute_step") =>
        /\ ~ app.out.raised
        /\ app.out.value["success"]
        /\ Len(app.out.value["executed_at"]) > 0

\* the items of the trigger data passed to a call (none for None)
PassedItems(trigger_data) == IF trigger_data.t = "dict" THEN trigger_data.v ELSE <<>>

IsConditionStep(r, j) ==
    /\ StepsOf(r)[j].t = "dict"
    /\ Get(StepsOf(r)[j].v, "type", "unknown") = "Condition"
    /\ Get(StepsOf(r)[j].v, "config", PyDict(EmptyDict)).t = "dict"

\* C21: a Condition step that is reached reports evaluation = true and
\* action_taken = its true_action, succeeds and adds one result; the taken
\* action is not run as a step (one execute_step call and one result per
\* step, none of them the result of the action), and the steps after it give
\* the results they give on their own.
C21_ConditionTakesTrueAction ==
    \A r \in Runs :
        Finalizing(r) /\ HasStepList(r) =>
            \A j \in 1..Len(StepsOf(r)) :
                (IsConditionStep(r, j) /\ j <= Len(ctx[r]["step_results"])) =>
                    LET results == ctx[r]["step_results"]
                        config == StepsOf(r)[j].v["config"].v
                    IN  /\ results[j]["success"]
                        /\ results[j]["result"]["evaluation"] = TRUE
                        /\ results[j]["result"]["action_taken"] =
                               Get(config, "true_action", PyDict(EmptyDict))
                        /\ results[j]["result"]["condition"] =
                               Get(config, "condition", PyStr(<<>>))
                        /\ calls[r] = Len(results)
                        /\ Len(results) <= Len(StepsOf(r))
                        /\ \A i \in 1..Len(results) :
                               Ok(results[i]) #
                                   execute_step(Get(config, "true_action",
                                                    PyDict(EmptyDict)), ctx[r])
                        /\ \A i \in (j + 1)..Len(StepsOf(r)) :
                               /\ i <= Len(results)
                               /\ Ok(results[i]) = OutcomeOf(r, i)

\* a run of [Condition "{{x}}", Create Ticket] with trigger {x: b} ended
\* completed with two results, the first naming the true action
C21_Witness ==
    \E r \in Runs :
        /\ Finalizing(r)
        /\ workflow[r] = Workflow(PyList(<<ConditionStep(T_x_placeholder), TicketStep>>))
        /\ ctx[r]["trigger_data"] = TriggerX.v
        /\ ctx[r]["status"] = "completed"
        /\ Len(ctx[r]["step_results"]) = 2
        /\ ctx[r]["step_results"][1]["result"]["action_taken"] = TrueAction
        /\ ctx[r]["step_results"][2]["result"]["type"] = "IT Support"

\* C22: every context in the active set has status running, and so has every
\* context that get_active_workflows returned.
C22_ActiveIsRunning ==
    /\ \A k \in DOMAIN active_workflows :
           ctx[active_workflows[k]]["status"] = "running"
    /\ reply.op = "get_active_workflows" =>
           \A c \in reply.out.value : c["status"] = "running"

\* C23: every call that got its context terminates: whenever a call is under
\* way, later every call made so far has returned with a terminal status and
\* is out of the active set, whatever its steps (Wait of any duration and
\* Approval included).
C23_RunsTerminate ==
    (\E r \in Runs : HasContext(r) /\ pc[r] # "returned") ~>
        (\A r \in Runs :
             HasContext(r) =>
                 /\ pc[r] = "returned"
                 /\ ctx[r]["status"] \in Terminal
                 /\ ctx[r]["id"] \notin DOMAIN active_workflows)

\* a run of [Wait 86400 s, Approval] has returned completed with both results
\* and is out of the active set
C23_Witness ==
    \E r \in Runs :
        /\ pc[r] = "returned"
        /\ ctx[r]["status"] = "completed"
        /\ Len(ctx[r]["step_results"]) = 2
        /\ ctx[r]["step_results"][1]["result"]["duration"] = 86400
        /\ ctx[r]["step_results"][2]["result"]["status"] = "approved"
        /\ ctx[r]["id"] \notin DOMAIN active_workflows

\* C24: a run of a workflow whose step list is empty ends completed with an
\* empty result list, whatever the trigger data; no step was executed.
C24_ZeroStepsCompleted ==
    \A r \in Runs :
        (Finalizing(r) /\ HasStepList(r) /\ Len(StepsOf(r)) = 0) =>
            /\ ctx[r]["status"] = "completed"
            /\ ctx[r]["step_results"] = <<>>
            /\ calls[r] = 0
            /\ "error" \notin DOMAIN ctx[r]

\* a run of an empty step list called with trigger {name: Sam} is past its
\* try block, completed and without results
C24_Witness ==
    \E r \in Runs :
        /\ Finalizing(r)
        /\ workflow[r] = Workflow(PyList(<<>>))
        /\ ctx[r]["trigger_data"] = TriggerSam.v
        /\ ctx[r]["status"] = "completed"
        /\ ctx[r]["step_results"] = <<>>

\* s is t, or t without its last element
SameOrOneLess(s, t) ==
    /\ Len(t) \in {Len(s), Len(s) + 1}
    /\ \A i \in 1..Len(s) : s[i] = t[i]

\* C25: steps run in workflow order, none skipped or repeated. The i-th
\* result is the result of the i-th step; the number of results is
\* current_step or current_step + 1 at every point of a run; from one
\* statement to the next current_step never decreases and the result list
\* only grows, by one result at a time, at its end.
C25_StepsInOrder ==
    /\ [](\A r \in Runs :
              HasContext(r) =>
                  LET results == ctx[r]["step_results"]
                  IN  /\ Len(results) \in {ctx[r]["current_step"],
                                            ctx[r]["current_step"] + 1}
                      /\ pc[r] # "returned" =>
                             /\ Len(results) > 0 => HasStepList(r)
                             /\ calls[r] \in {Len(results), Len(results) + 1}
                             /\ \A i \in 1..Len(results) :
                                    /\ i <= Len(StepsOf(r))
                                    /\ Ok(results[i]) = OutcomeOf(r, i))
    /\ [][\A r \in Runs :
              (HasContext(r) /\ pc'[r] \notin {"idle", "raised"}) =>
                  /\ ctx'[r]["current_step"] >= ctx[r]["current_step"]
                  /\ ctx'[r]["current_step"] <= ctx[r]["current_step"] + 1
                  /\ SameOrOneLess(ctx[r]["step_results"],
                                   ctx'[r]["step_results"])]_vars

\* the run of [Create Ticket, Bogus] has just appended its second result, at
\* current_step 1: the ticket first, the failed result second
C25_Witness ==
    \E r \in Runs :
        /\ pc[r] = "check"
        /\ workflow[r] = BogusScenario
        /\ ctx[r]["current_step"] = 1
        /\ Len(ctx[r]["step_results"]) = 2
        /\ ctx[r]["step_results"][1]["success"]
        /\ ~ ctx[r]["step_results"][2]["success"]

\* the context of the call r is what execute_workflow returns (or is about to)
Final(r) == pc[r] \in {"finally", "remove", "returned"}

\* C26: in a returned context every result but possibly the last has success
\* = true; the status is failed exactly when the last result has success =
\* false, and then the context's error is that result's error.
C26_FailedIffLastFailed ==
    \A r \in Runs :
        Final(r) =>
            LET results == ctx[r]["step_results"]
                n == Len(results)
                lastFailed == n > 0 /\ ~ Get(results[n], "success", TRUE)
            IN  /\ \A i \in 1..(n - 1) : Get(results[i], "success", TRUE)
                /\ (ctx[r]["status"] = "failed") <=> lastFailed
                /\ lastFailed =>
                       /\ "error" \in DOMAIN ctx[r]
                       /\ "error" \in DOMAIN results[n]
                       /\ ctx[r]["error"] = results[n]["error"]

\* a run has returned failed with a kept success before the failed result,
\* whose error it carries
C26_Witness ==
    \E r \in Runs :
        /\ pc[r] = "returned"
        /\ ctx[r]["status"] = "failed"
        /\ Len(ctx[r]["step_results"]) = 2
        /\ ctx[r]["step_results"][1]["success"]
        /\ ~ ctx[r]["step_results"][2]["success"]
        /\ ctx[r]["error"] = "Unknown step type: Bogus"

\* C27: the history is append-only. No statement of a run and no query
\* removes, moves or changes an entry: the history before a step is the
\* history after it, or that without its last entry. Every entry has a
\* terminal status and a completion timestamp.
C27_HistoryAppendOnly ==
    /\ [][SameOrOneLess(workflow_history, workflow_history')]_vars
    /\ [](\A i \in 1..Len(workflow_history) :
              /\ workflow_history[i]["status"] \in Terminal
              /\ "completed_at" \in DOMAIN workflow_history[i]
              /\ Len(workflow_history[i]["completed_at"]) > 0)

\* two runs have finished, one failed and one with an error, and the observer
\* has read the whole history
C27_Witness ==
    /\ Len(workflow_history) = 2
    /\ workflow_history[1]["status"] = "failed"
    /\ workflow_history[2]["status"] = "error"
    /\ reply.op = "get_workflow_history"
    /\ reply.out = Ok(workflow_history)

\* entry k of the step list of the call r is no mapping, and every entry
\* before it is executed with success
FirstNonMapping(r, k) ==
    /\ StepsOf(r)[k].t # "dict"
    /\ \A j \in 1..(k - 1) :
           /\ StepsOf(r)[j].t = "dict"
           /\ ~ OutcomeOf(r, j).raised
           /\ OutcomeOf(r, j).value["success"]

\* C28: when entry k of the step list is no mapping the fault escapes
\* execute_step: the run ends with status error and the fault's message,
\* k - 1 results, all successes, execute_step called k times and no more;
\* the context is appended to the history and, once the call has returned,
\* is out of the active set.
C28_NonMappingStepIsError ==
    /\ \A r \in Runs :
           Finalizing(r) /\ HasStepList(r) =>
               \A k \in 1..Len(StepsOf(r)) :
                   FirstNonMapping(r, k) =>
                       /\ ctx[r]["status"] = "error"
                       /\ ctx[r]["error"] = NoGetAttribute
                       /\ Len(ctx[r]["step_results"]) = k - 1
                       /\ \A j \in 1..(k - 1) : ctx[r]["step_results"][j]["success"]
                       /\ calls[r] = k
                       /\ pc[r] = "remove" =>
                              \E i \in EntriesOf(ctx[r]["id"]) : workflow_history[i] = ctx[r]
    /\ \A r \in Runs :
           (pc[r] = "returned" /\ ctx[r]["status"] = "error") =>
               /\ ctx[r]["id"] \notin DOMAIN active_workflows
               /\ \E i \in EntriesOf(ctx[r]["id"]) : workflow_history[i] = ctx[r]

\* a run of [Create Ticket, "step6"] is past its try block: status error, the
\* ticket result kept, execute_step called twice
C28_Witness ==
    \E r \in Runs :
        /\ pc[r] = "remove"
        /\ workflow[r] = Workflow(PyList(<<TicketStep, NotAMappingStep>>))
        /\ ctx[r]["status"] = "error"
        /\ Len(ctx[r]["step_results"]) = 1
        /\ ctx[r]["step_results"][1]["success"]
        /\ calls[r] = 2

\* C29: a call that fails before its context is registered (the workflow has
\* no 'id' or no 'name') leaves the active set and the history as they were;
\* it has no context, and it never adds an entry later: the history has one
\* entry per call that reached its finally clause, and the active set holds
\* the registered calls only.
C29_RaisedCallLeavesNoTrace ==
    /\ [][\A r \in Runs :
              (pc[r] = "idle" /\ pc'[r] = "raised") =>
                  /\ active_workflows' = active_workflows
                  /\ workflow_history' = workflow_history]_vars
    /\ [](\A r \in Runs :
              pc[r] = "raised" =>
                  /\ ctx[r] = EmptyDict
                  /\ Len(workflow_history) =
                         Cardinality({q \in Runs : pc[q] \in {"remove", "returned"}})
                  /\ DOMAIN active_workflows =
                         {ctx[q]["id"] : q \in {x \in Runs : Registered(x)}})
    /\ [][\A r \in Runs : pc[r] = "raised" => pc'[r] = "raised"]_vars

\* a call on a workflow without 'id' has raised after an earlier run left its
\* entry: the history still holds that entry alone and nothing is active
C29_Witness ==
    \E r, q \in Runs :
        /\ pc[q] = "returned" /\ pc[r] = "raised"
        /\ exc[r] = "'id'"
        /\ Len(workflow_history) = 1
        /\ workflow_history[1] = ctx[q]
        /\ DOMAIN active_workflows = {}

\* the j-th step of the call r is a Send Email step with a mapping config
IsEmailStep(r, j) ==
    /\ StepsOf(r)[j].t = "dict"
    /\ Get(StepsOf(r)[j].v, "type", "unknown") = "Send Email"
    /\ Get(StepsOf(r)[j].v, "config", PyDict(EmptyDict)).t = "dict"

\* C30: the result of a Send Email step carries the configured 'to' as it is,
\* while subject and body are what substitution gives; the sample workflow's
\* '{{employee_email}}' stays, whatever the trigger data.
C30_RecipientNotSubstituted ==
    \A r \in Runs :
        Finalizing(r) /\ HasStepList(r) =>
            \A j \in 1..Len(StepsOf(r)) :
                (IsEmailStep(r, j) /\ j <= Len(ctx[r]["step_results"])) =>
                    LET config == StepsOf(r)[j].v["config"].v
                        payload == ctx[r]["step_results"][j]["result"]
                    IN  /\ payload["to"] = Get(config, "to", PyStr(<<>>))
                        /\ Ok(payload["subject"]) =
                               replace_variables(Get(config, "subject", PyStr(<<>>)), ctx[r])
                        /\ Ok(payload["body"]) =
                               replace_variables(Get(config, "template", PyStr(<<>>)), ctx[r])
                        /\ workflow[r] = SampleWorkflow =>
                               payload["to"] = PyStr(T_employee_email)

\* the sample workflow was run with trigger {employee_email: sam@x}: the
\* email result still has '{{employee_email}}' as its recipient
C30_Witness ==
    \E r \in Runs :
        /\ Finalizing(r)
        /\ workflow[r] = SampleWorkflow
        /\ ctx[r]["trigger_data"] = TriggerEmployee.v
        /\ ctx[r]["status"] = "completed"
        /\ Len(ctx[r]["step_results"]) = 2
        /\ ctx[r]["step_results"][1]["result"]["to"] = PyStr(T_employee_email)

====
